---------------------------- MODULE Spec2Model ----------------------------
(***************************************************************************)
(* Model of the GeoLLM question-answering service (server.py) and of the   *)
(* requests its demo client sends (client.py).                             *)
(*                                                                         *)
(* A text is a sequence of one-character strings, so that trimming,        *)
(* whitespace collapsing, lowercasing, regular-expression matching and     *)
(* answer formatting are computed character by character as Python does.   *)
(***************************************************************************)
EXTENDS Integers, Sequences, FiniteSets, TLC

VARIABLES
    rows,          \* the rows csv.reader yields: a sequence of field lists
    pos,           \* number of rows load_geo has processed
    countries,     \* dict: lowercased country -> item
    by_continent,  \* dict: lowercased continent -> list of items
    req,           \* the request Ask is called with
    resp,          \* the response it returned
    branch,        \* which return statement of Ask produced resp ("none" before)
    calls          \* per worker thread: the Ask call it is running

vars == <<rows, pos, countries, by_continent, req, resp, branch, calls>>

-----------------------------------------------------------------------------
(* Characters and str methods                                              *)

UpperChars == <<"A","B","C","D","E","F","G","H","I","J","K","L","M","N","O","P","Q","R","S","T","U","V","W","X","Y","Z">>
LowerChars == <<"a","b","c","d","e","f","g","h","i","j","k","l","m","n","o","p","q","r","s","t","u","v","w","x","y","z">>
DigitChars == <<"0","1","2","3","4","5","6","7","8","9">>

SeqToSet(s) == {s[i] : i \in 1..Len(s)}

\* str.isspace for one character (the whitespace the model's texts use)
IsSpace(c) == c \in {" ", "\t", "\n", "\r"}

\* the regex class \w: letters, digits and underscore
WordChars == SeqToSet(UpperChars) \cup SeqToSet(LowerChars) \cup SeqToSet(DigitChars) \cup {"_"}
IsWord(c) == c \in WordChars

\* the lowercase letter of every uppercase letter
LowerMap == [c \in SeqToSet(UpperChars) |->
                LowerChars[CHOOSE i \in 1..Len(UpperChars) : UpperChars[i] = c]]

LowerChar(c) == IF c \in DOMAIN LowerMap THEN LowerMap[c] ELSE c

\* str.lower()
lower(s) == [i \in 1..Len(s) |-> LowerChar(s[i])]

RECURSIVE lstrip(_)
lstrip(s) == IF s # <<>> /\ IsSpace(Head(s)) THEN lstrip(Tail(s)) ELSE s

RECURSIVE rstrip(_)
rstrip(s) == IF s # <<>> /\ IsSpace(s[Len(s)]) THEN rstrip(SubSeq(s, 1, Len(s) - 1)) ELSE s

\* str.strip()
strip(s) == rstrip(lstrip(s))

\* re.sub(r"\s+", " ", s): every maximal run of whitespace becomes one space
RECURSIVE sub_spaces(_)
sub_spaces(s) ==
    IF s = <<>> THEN <<>>
    ELSE IF IsSpace(Head(s))
         THEN <<" ">> \o sub_spaces(lstrip(s))
         ELSE <<Head(s)>> \o sub_spaces(Tail(s))

normalize_spaces(s) == sub_spaces(strip(s))

\* sep.join(parts)
RECURSIVE join(_, _)
join(sep, parts) ==
    IF parts = <<>> THEN <<>>
    ELSE IF Len(parts) = 1 THEN parts[1]
    ELSE parts[1] \o sep \o join(sep, Tail(parts))

-----------------------------------------------------------------------------
(* load_geo                                                                *)

EmptyDict == <<>>

\* d[key] = value
DictSet(d, key, value) == [k \in DOMAIN d \cup {key} |-> IF k = key THEN value ELSE d[k]]

\* d.setdefault(key, []).append(value)
DictAppend(d, key, value) ==
    [k \in DOMAIN d \cup {key} |->
        IF k = key THEN (IF key \in DOMAIN d THEN d[key] ELSE <<>>) \o <<value>> ELSE d[k]]

\* the dict load_geo builds for one row
MakeItem(row) ==
    LET country == strip(row[1])
        capital == strip(row[2])
        continent == strip(row[3])
    IN [country |-> country, capital |-> capital, continent |-> continent,
        row |-> join(<<",">>, <<country, capital, continent>>)]

\* the key of the countries dict for a row
CountryKey(row) == lower(strip(row[1]))

\* the key of the by_continent dict for a row
ContinentKey(row) == lower(strip(row[3]))

\* a loader that keeps the first row of a country (setdefault instead of assignment)
CountriesAfterRow_keepFirst(cs, row) ==
    IF Len(row) < 3 \/ CountryKey(row) \in DOMAIN cs THEN cs
    ELSE DictSet(cs, CountryKey(row), MakeItem(row))

\* countries after one iteration of the loop over the reader
CountriesAfterRow(cs, row) ==
    IF Len(row) < 3 THEN cs ELSE DictSet(cs, CountryKey(row), MakeItem(row))

\* drop from a list the items of one country
RECURSIVE WithoutCountry(_, _)
WithoutCountry(items, key) ==
    IF items = <<>> THEN <<>>
    ELSE (IF lower(Head(items).country) = key THEN <<>> ELSE <<Head(items)>>)
         \o WithoutCountry(Tail(items), key)

\* a loader whose continent lists drop the earlier rows of a repeated country
ByContinentAfterRow_dedup(bc, row) ==
    IF Len(row) < 3 THEN bc
    ELSE DictAppend([k \in DOMAIN bc |-> WithoutCountry(bc[k], CountryKey(row))],
                    ContinentKey(row), MakeItem(row))

\* by_continent after one iteration of the loop over the reader
ByContinentAfterRow(bc, row) ==
    IF Len(row) < 3 THEN bc ELSE DictAppend(bc, ContinentKey(row), MakeItem(row))

\* load_geo as a whole: the pair (countries, by_continent) for a row sequence
RECURSIVE load_geo(_)
load_geo(rs) ==
    IF rs = <<>> THEN [countries |-> EmptyDict, by_continent |-> EmptyDict]
    ELSE LET before == load_geo(SubSeq(rs, 1, Len(rs) - 1))
             row == rs[Len(rs)]
         IN [countries |-> CountriesAfterRow(before.countries, row),
             by_continent |-> ByContinentAfterRow(before.by_continent, row)]

-----------------------------------------------------------------------------
(* The regular expressions of Ask.  They are applied to q, which            *)
(* normalize_spaces has left without any newline, so that "." matches every *)
(* character of q and "$" matches only at the end of q.                    *)

CAPITAL_OF == <<"c","a","p","i","t","a","l"," ","o","f"," ">>
WHICH_CONTINENT_IS == <<"w","h","i","c","h"," ","c","o","n","t","i","n","e","n","t"," ","i","s"," ">>
IN_SUFFIX == <<" ","i","n">>
LIST_COUNTRIES_IN == <<"l","i","s","t"," ","c","o","u","n","t","r","i","e","s"," ","i","n"," ">>
WHAT_IS_THE_CAPITAL_OF == <<"w","h","a","t"," ","i","s"," ","t","h","e"," ","c","a","p","i","t","a","l"," ","o","f"," ">>

\* the literal lit occurs in s at position i
HasAt(s, i, lit) ==
    /\ i >= 1
    /\ i + Len(lit) - 1 <= Len(s)
    /\ SubSeq(s, i, i + Len(lit) - 1) = lit

\* \b matches between s[i-1] and s[i]
BoundaryAt(s, i) ==
    LET before == i > 1 /\ IsWord(s[i - 1])
        after == i <= Len(s) /\ IsWord(s[i])
    IN before # after

Min(S) == CHOOSE x \in S : \A y \in S : x <= y
Max(S) == CHOOSE x \in S : \A y \in S : x >= y

\* the positions at which \b<lit> matches in q
LiteralStarts(q, lit) == {i \in 1..Len(q) : BoundaryAt(q, i) /\ HasAt(q, i, lit)}

\* what re.search returns: no match, or a match with its group(1)
NoMatch == [matched |-> FALSE, group1 |-> <<>>]
Group1(capture) == [matched |-> TRUE, group1 |-> capture]

\* re.search(r"\b<lit>(.+)$", q): the leftmost match.
\* The greedy (.+) takes the rest of q, which must hold one character at least.
SearchToEnd(q, lit) ==
    LET starts == {i \in LiteralStarts(q, lit) : i + Len(lit) <= Len(q)}
    IN IF starts = {} THEN NoMatch
       ELSE Group1(SubSeq(q, Min(starts) + Len(lit), Len(q)))

\* re.search(r"\bcapital of (.+)$", q)
Match1(q) == SearchToEnd(q, CAPITAL_OF)

\* re.search(r"\bwhich continent is (.+?) in\??$", q): the lazy (.+?) ends at
\* the first position from which " in", an optional "?" and the end follow.
CaptureEnds2(q, from) ==
    {e \in from..Len(q) :
        /\ HasAt(q, e + 1, IN_SUFFIX)
        /\ \/ e + Len(IN_SUFFIX) = Len(q)
           \/ e + Len(IN_SUFFIX) + 1 = Len(q) /\ q[Len(q)] = "?"}

\* pattern 2 with a greedy capture running to the end of q
Match2_greedyToEnd(q) ==
    LET starts == {i \in LiteralStarts(q, WHICH_CONTINENT_IS) :
                      CaptureEnds2(q, i + Len(WHICH_CONTINENT_IS)) # {}}
    IN IF starts = {} THEN NoMatch
       ELSE Group1(SubSeq(q, Min(starts) + Len(WHICH_CONTINENT_IS), Len(q)))

Match2(q) ==
    LET starts == {i \in LiteralStarts(q, WHICH_CONTINENT_IS) :
                      CaptureEnds2(q, i + Len(WHICH_CONTINENT_IS)) # {}}
    IN IF starts = {} THEN NoMatch
       ELSE LET from == Min(starts) + Len(WHICH_CONTINENT_IS)
            IN Group1(SubSeq(q, from, Min(CaptureEnds2(q, from))))

\* re.search(r"\blist countries in (.+)$", q)
Match3(q) == SearchToEnd(q, LIST_COUNTRIES_IN)

\* re.search(r"\bwhat is the capital of (.+)\??$", q): the greedy (.+) takes
\* the longest capture after which an optional "?" and the end follow.
CaptureEnds4(q, from) ==
    {e \in from..Len(q) :
        \/ e = Len(q)
        \/ e + 1 = Len(q) /\ q[Len(q)] = "?"}

Match4(q) ==
    LET starts == {i \in LiteralStarts(q, WHAT_IS_THE_CAPITAL_OF) :
                      CaptureEnds4(q, i + Len(WHAT_IS_THE_CAPITAL_OF)) # {}}
    IN IF starts = {} THEN NoMatch
       ELSE LET from == Min(starts) + Len(WHAT_IS_THE_CAPITAL_OF)
            IN Group1(SubSeq(q, from, Max(CaptureEnds4(q, from))))

-----------------------------------------------------------------------------
(* GeoLLM.Ask                                                              *)

DefaultTopK == 10

\* a default that replaces negative values only
EffectiveTopK_keepsZero(top_k) == IF top_k >= 0 THEN top_k ELSE DefaultTopK

\* top_k = request.top_k if request.top_k > 0 else 10
EffectiveTopK(top_k) == IF top_k > 0 THEN top_k ELSE DefaultTopK

\* q = normalize_spaces(request.question).lower()
NormalizeQuestion(question) == lower(normalize_spaces(question))

\* a slice that keeps one item more
Slice_oneMore(items, k) == SubSeq(items, 1, IF k + 1 < Len(items) THEN k + 1 ELSE Len(items))

\* items[:k]
Slice(items, k) ==
    IF k >= 0 THEN SubSeq(items, 1, IF k < Len(items) THEN k ELSE Len(items))
    ELSE SubSeq(items, 1, IF Len(items) + k > 0 THEN Len(items) + k ELSE 0)

\* [x[field] for x in items]
Column(items, field) == [i \in 1..Len(items) |-> items[i][field]]

GeoResponse(answer, sources, br) == [answer |-> answer, sources |-> sources, branch |-> br]

\* f"The capital of {item['country']} is {item['capital']}."
CapitalAnswer(item) == <<"T","h","e"," ","c","a","p","i","t","a","l"," ","o","f"," ">> \o item.country \o <<" ","i","s"," ">> \o item.capital \o <<".">>

\* f"{item['country']} is in {item['continent']}."
ContinentAnswer(item) == item.country \o <<" ","i","s"," ","i","n"," ">> \o item.continent \o <<".">>

\* f"I don't have data for '{country_name}'."
NoDataAnswer(country_name) == <<"I"," ","d","o","n","'","t"," ","h","a","v","e"," ","d","a","t","a"," ","f","o","r"," ","'">> \o country_name \o <<"'",".">>

\* f"I don't have any countries for continent '{m.group(1).strip()}'."
NoCountriesAnswer(shown) == <<"I"," ","d","o","n","'","t"," ","h","a","v","e"," ","a","n","y"," ","c","o","u","n","t","r","i","e","s"," ","f","o","r"," ","c","o","n","t","i","n","e","n","t"," ","'">> \o shown \o <<"'",".">>

\* f"Countries in {m.group(1).strip()}: {names}."
ListAnswer(shown, names) == <<"C","o","u","n","t","r","i","e","s"," ","i","n"," ">> \o shown \o <<":"," ">> \o names \o <<".">>

\* a help text that lists the fourth phrasing too
HelpText_fourPhrasings ==
    <<"I"," ","c","a","n"," ","a","n","s","w","e","r",":","\n">>
    \o <<"1",")"," ","'","c","a","p","i","t","a","l"," ","o","f"," ","<","c","o","u","n","t","r","y",">","'","\n">>
    \o <<"2",")"," ","'","w","h","i","c","h"," ","c","o","n","t","i","n","e","n","t"," ","i","s"," ","<","c","o","u","n","t","r","y",">"," ","i","n","'","\n">>
    \o <<"3",")"," ","'","l","i","s","t"," ","c","o","u","n","t","r","i","e","s"," ","i","n"," ","<","c","o","n","t","i","n","e","n","t",">","'","\n">>
    \o <<"4",")"," ","'","w","h","a","t"," ","i","s"," ","t","h","e"," ","c","a","p","i","t","a","l"," ","o","f"," ","<","c","o","u","n","t","r","y",">","'">>

HelpText ==
    <<"I"," ","c","a","n"," ","a","n","s","w","e","r",":","\n">>
    \o <<"1",")"," ","'","c","a","p","i","t","a","l"," ","o","f"," ","<","c","o","u","n","t","r","y",">","'","\n">>
    \o <<"2",")"," ","'","w","h","i","c","h"," ","c","o","n","t","i","n","e","n","t"," ","i","s"," ","<","c","o","u","n","t","r","y",">"," ","i","n","'","\n">>
    \o <<"3",")"," ","'","l","i","s","t"," ","c","o","u","n","t","r","i","e","s"," ","i","n"," ","<","c","o","n","t","i","n","e","n","t",">","'">>

\* the body shared by patterns 1 and 4: the capital of the captured country
\* (self.countries.get(key) is a non-empty dict, which is true, or None)
CapitalLookup(cs, capture, include_sources, br) ==
    LET country_name == strip(capture)
        key == lower(country_name)
        item == cs[key]
    IN IF key \in DOMAIN cs
       THEN GeoResponse(CapitalAnswer(item),
                        IF include_sources THEN <<item.row>> ELSE <<>>, br)
       ELSE GeoResponse(NoDataAnswer(country_name), <<>>, br)

\* the body of pattern 2: the continent of the captured country
ContinentLookup(cs, capture, include_sources, br) ==
    LET country_name == strip(capture)
        key == lower(country_name)
        item == cs[key]
    IN IF key \in DOMAIN cs
       THEN GeoResponse(ContinentAnswer(item),
                        IF include_sources THEN <<item.row>> ELSE <<>>, br)
       ELSE GeoResponse(NoDataAnswer(country_name), <<>>, br)

\* items = self.by_continent.get(cont, []); items = items[:top_k]
ListedItems(bc, capture, top_k) ==
    LET cont == lower(strip(capture))
        items == IF cont \in DOMAIN bc THEN bc[cont] ELSE <<>>
    IN Slice(items, top_k)

\* the body of pattern 3: the countries of the captured continent
ContinentListing(bc, capture, top_k, include_sources, br) ==
    LET items == ListedItems(bc, capture, top_k)
    IN IF items = <<>>
       THEN GeoResponse(NoCountriesAnswer(strip(capture)), <<>>, br)
       ELSE GeoResponse(ListAnswer(strip(capture), join(<<","," ">>, Column(items, "country"))),
                        IF include_sources THEN Column(items, "row") ELSE <<>>, br)

\* an order that tries the listing pattern first
PatternOrder_listingFirst == <<"p3", "p1", "p2", "p4">>

\* the patterns in the order Ask tries them
PatternOrder == <<"p1", "p2", "p3", "p4">>

\* re.search of pattern p on q
MatchOf(p, q) ==
    CASE p = "p1" -> Match1(q)
      [] p = "p2" -> Match2(q)
      [] p = "p3" -> Match3(q)
      [] p = "p4" -> Match4(q)

\* what the body under pattern p returns for its capture
HandlerOf(p, cs, bc, capture, top_k, include_sources) ==
    CASE p = "p1" -> CapitalLookup(cs, capture, include_sources, p)
      [] p = "p2" -> ContinentLookup(cs, capture, include_sources, p)
      [] p = "p3" -> ContinentListing(bc, capture, top_k, include_sources, p)
      [] p = "p4" -> CapitalLookup(cs, capture, include_sources, p)

\* the fallback return at the end of Ask
Fallback == GeoResponse(HelpText, <<>>, "fallback")

\* the chain of "m = re.search(...); if m: ... return" from pattern number n on
RECURSIVE TryFrom(_, _, _, _, _, _)
TryFrom(n, cs, bc, q, top_k, include_sources) ==
    IF n > Len(PatternOrder) THEN Fallback
    ELSE LET m == MatchOf(PatternOrder[n], q)
         IN IF m.matched
            THEN HandlerOf(PatternOrder[n], cs, bc, m.group1, top_k, include_sources)
            ELSE TryFrom(n + 1, cs, bc, q, top_k, include_sources)

\* Ask: the response and the return statement that produced it
Ask(cs, bc, request) ==
    TryFrom(1, cs, bc, NormalizeQuestion(request.question),
            EffectiveTopK(request.top_k), request.include_sources)

\* a truncation in place (del items[top_k:]) of the list the dict holds
ByContinentAfterAsk_inPlace(bc, request) ==
    LET q == NormalizeQuestion(request.question)
        cont == lower(strip(Match3(q).group1))
    IN IF Ask(EmptyDict, bc, request).branch = "p3" /\ cont \in DOMAIN bc
       THEN [bc EXCEPT ![cont] = Slice(bc[cont], EffectiveTopK(request.top_k))]
       ELSE bc

\* self.by_continent once Ask has returned: items[:top_k] builds a new list
\* and nothing is assigned into the dict
ByContinentAfterAsk(bc, request) == bc

\* self.countries once Ask has returned: only .get() reads it
CountriesAfterAsk(cs, request) == cs

-----------------------------------------------------------------------------
(* Inputs                                                                  *)

\* rows the loader is tried on: a duplicate country in another letter case,
\* a country with a run of blanks inside, rows of 0, 2 and 4 fields
RowPool ==
    { <<<<"P","e","r","u">>, <<"L","i","m","a">>, <<"A","m","e","r","i","c","a">>>>,
      <<<<"P","E","R","U"," ">>, <<"C","u","s","c","o">>, <<"a","m","e","r","i","c","a">>>>,
      <<<<"A"," "," ","B">>, <<"X">>, <<"A","s","i","a">>>>,
      <<<<"F","i","j","i">>, <<"S","u","v","a">>>>,
      <<<<" ","C","h","a","d">>, <<"N","d","j","a","m","e","n","a"," ">>, <<" ","A","f","r","i","c","a">>, <<"e","x","t","r","a">>>>,
      <<>> }

MaxRows == 3

LoadInputs == UNION {[1..n -> RowPool] : n \in 0..MaxRows}

\* a table like the demo's geo.csv: eleven rows naming Asia, the last of them
\* a second row for India, and a row of two fields
DemoRows ==
    << <<<<"I","n","d","i","a">>, <<"N","e","w"," ","D","e","l","h","i">>, <<"A","s","i","a">>>>,
       <<<<"C","h","i","n","a">>, <<"B","e","i","j","i","n","g">>, <<"A","s","i","a">>>>,
       <<<<"J","a","p","a","n">>, <<"T","o","k","y","o">>, <<"A","s","i","a">>>>,
       <<<<"N","e","p","a","l">>, <<"K","a","t","h","m","a","n","d","u">>, <<"A","s","i","a">>>>,
       <<<<"L","a","o","s">>, <<"V","i","e","n","t","i","a","n","e">>, <<"A","s","i","a">>>>,
       <<<<"I","r","a","n">>, <<"T","e","h","r","a","n">>, <<"A","s","i","a">>>>,
       <<<<"I","r","a","q">>, <<"B","a","g","h","d","a","d">>, <<"A","s","i","a">>>>,
       <<<<"O","m","a","n">>, <<"M","u","s","c","a","t">>, <<"A","s","i","a">>>>,
       <<<<"Q","a","t","a","r">>, <<"D","o","h","a">>, <<"A","s","i","a">>>>,
       <<<<"S","y","r","i","a">>, <<"D","a","m","a","s","c","u","s">>, <<"A","s","i","a">>>>,
       <<<<"I","N","D","I","A">>, <<"D","e","l","h","i">>, <<"a","s","i","a">>>>,
       <<<<"F","r","a","n","c","e">>, <<"P","a","r","i","s">>, <<"E","u","r","o","p","e">>>>,
       <<<<"B","r","a","z","i","l">>, <<"B","r","a","s","i","l","i","a">>, <<"S","o","u","t","h"," ","A","m","e","r","i","c","a">>>>,
       <<<<"F","i","j","i">>, <<"S","u","v","a">>>> >>

Datasets == {<<>>, SubSeq(DemoRows, 1, 3), DemoRows}

\* how questions begin
Leads ==
    { <<"c","a","p","i","t","a","l"," ","o","f"," ">>, <<" "," ","C","a","p","i","t","a","l"," "," "," ","o","f"," ">>, <<"r","e","c","a","p","i","t","a","l"," ","o","f"," ">>,
      <<"w","h","i","c","h"," ","c","o","n","t","i","n","e","n","t"," ","i","s"," ">>, <<"W","h","i","c","h"," ","c","o","n","t","i","n","e","n","t"," ","i","s"," ">>,
      <<"l","i","s","t"," ","c","o","u","n","t","r","i","e","s"," ","i","n"," ">>, <<"L","i","s","t"," ","c","o","u","n","t","r","i","e","s"," ","i","n"," ","c","a","p","i","t","a","l"," ","o","f"," ">>,
      <<"w","h","a","t"," ","i","s"," ","t","h","e"," ","c","a","p","i","t","a","l"," ","o","f"," ">>, <<"W","h","a","t"," ","i","s"," ","t","h","e"," ","c","a","p","i","t","a","l"," ","o","f"," ">>,
      <<"h","e","l","l","o"," ","t","h","e","r","e"," ">>, <<>> }

\* the names asked about
Names ==
    { <<"I","n","d","i","a">>, <<"i","n","d","i","a">>, <<"B","r","a","z","i","l">>, <<"F","r","a","n","c","e">>, <<"A","t","l","a","n","t","i","s">>,
      <<"A","s","i","a">>, <<"E","u","r","o","p","e">>, <<"S","o","u","t","h"," "," ","A","m","e","r","i","c","a">>, <<>> }

\* how questions end
Tails == { <<>>, <<"?">>, <<" ","i","n">>, <<" ","i","n","?">>, <<" ","\t">> }

Questions == {l \o n \o t : l \in Leads, n \in Names, t \in Tails}

MaxTopK == 12

Requests ==
    [question : Questions, top_k : (-1)..MaxTopK, include_sources : BOOLEAN]

\* the four calls of the client's main, with its top_k of 5 and the default
ClientQuestions ==
    { <<"c","a","p","i","t","a","l"," ","o","f"," ","I","n","d","i","a">>, <<"W","h","i","c","h"," ","c","o","n","t","i","n","e","n","t"," ","i","s"," ","F","r","a","n","c","e"," ","i","n","?">>,
      <<"l","i","s","t"," ","c","o","u","n","t","r","i","e","s"," ","i","n"," ","A","s","i","a">>, <<"w","h","a","t"," ","i","s"," ","t","h","e"," ","c","a","p","i","t","a","l"," ","o","f"," ","B","r","a","z","i","l","?">> }

ClientRequests ==
    [question : ClientQuestions, top_k : {0, 5}, include_sources : {TRUE}]

NumThreads == 2
Threads == 1..NumThreads

-----------------------------------------------------------------------------
(* State machine                                                           *)

NoRequest == [question |-> <<>>, top_k |-> 0, include_sources |-> FALSE]
NoResponse == [answer |-> <<>>, sources |-> <<>>]
IdleCall == [pc |-> "idle", request |-> NoRequest, q |-> <<>>, top_k |-> 0,
             include_sources |-> FALSE, result |-> NoResponse]

\* GeoLLM.__init__ has run: the dicts are those load_geo returns
Constructed(rs) ==
    /\ rows = rs
    /\ pos = Len(rs)
    /\ countries = load_geo(rs).countries
    /\ by_continent = load_geo(rs).by_continent

NoCalls ==
    /\ req = NoRequest
    /\ resp = NoResponse
    /\ branch = "none"
    /\ calls = [t \in Threads |-> IdleCall]

\* one call of Ask, from its first line to its return, on the request req
AskCall ==
    /\ branch = "none"
    /\ LET r == Ask(countries, by_continent, req)
       IN /\ resp' = [answer |-> r.answer, sources |-> r.sources]
          /\ branch' = r.branch
    /\ countries' = CountriesAfterAsk(countries, req)
    /\ by_continent' = ByContinentAfterAsk(by_continent, req)
    /\ UNCHANGED <<rows, pos, req, calls>>

Init ==
    /\ \E rs \in Datasets : Constructed(rs)
    /\ req \in Requests
    /\ resp = NoResponse
    /\ branch = "none"
    /\ calls = [t \in Threads |-> IdleCall]

Next == AskCall

Spec == Init /\ [][Next]_vars

\* load_geo, one iteration of its loop at a time
LoadRow ==
    /\ pos < Len(rows)
    /\ pos' = pos + 1
    /\ countries' = CountriesAfterRow(countries, rows[pos + 1])
    /\ by_continent' = ByContinentAfterRow(by_continent, rows[pos + 1])
    /\ UNCHANGED <<rows, req, resp, branch, calls>>

InitLoad ==
    /\ rows \in LoadInputs
    /\ pos = 0
    /\ countries = EmptyDict
    /\ by_continent = EmptyDict
    /\ NoCalls

NextLoad == LoadRow

SpecLoad == InitLoad /\ [][NextLoad]_vars

\* a worker thread of the pool takes a request
Receive(t) ==
    /\ calls[t].pc = "idle"
    /\ \E request \in ClientRequests :
          calls' = [calls EXCEPT ![t] = [IdleCall EXCEPT !.pc = "received", !.request = request]]
    /\ UNCHANGED <<rows, pos, countries, by_continent, req, resp, branch>>

\* the first lines of Ask: q, top_k, include_sources, sources = []
Normalize(t) ==
    /\ calls[t].pc = "received"
    /\ calls' = [calls EXCEPT ![t].pc = "normalized",
                              ![t].q = NormalizeQuestion(calls[t].request.question),
                              ![t].top_k = EffectiveTopK(calls[t].request.top_k),
                              ![t].include_sources = calls[t].request.include_sources]
    /\ UNCHANGED <<rows, pos, countries, by_continent, req, resp, branch>>

\* the pattern chain of Ask, reading the dicts the threads share
Handle(t) ==
    /\ calls[t].pc = "normalized"
    /\ LET r == TryFrom(1, countries, by_continent, calls[t].q, calls[t].top_k,
                        calls[t].include_sources)
       IN calls' = [calls EXCEPT ![t].pc = "handled",
                                 ![t].result = [answer |-> r.answer, sources |-> r.sources]]
    /\ countries' = CountriesAfterAsk(countries, calls[t].request)
    /\ by_continent' = ByContinentAfterAsk(by_continent, calls[t].request)
    /\ UNCHANGED <<rows, pos, req, resp, branch>>

\* the response is sent and the thread is free again
Reply(t) ==
    /\ calls[t].pc = "handled"
    /\ calls' = [calls EXCEPT ![t] = IdleCall]
    /\ UNCHANGED <<rows, pos, countries, by_continent, req, resp, branch>>

InitServe == Constructed(DemoRows) /\ NoCalls

NextServe == \E t \in Threads : Receive(t) \/ Normalize(t) \/ Handle(t) \/ Reply(t)

SpecServe == InitServe /\ [][NextServe]_vars

-----------------------------------------------------------------------------
(* Properties of load_geo (checked under SpecLoad)                         *)

\* the rows load_geo has processed that have three fields at least
Loaded == {i \in 1..pos : Len(rows[i]) >= 3}

\* the record a row of three fields stands for: its fields trimmed, and the
\* line "country,capital,continent" made of them
RecordOf(r) ==
    [country |-> strip(r[1]), capital |-> strip(r[2]), continent |-> strip(r[3]),
     row |-> strip(r[1]) \o <<",">> \o strip(r[2]) \o <<",">> \o strip(r[3])]

\* the k-th smallest element of a set of row numbers
Nth(S, k) == CHOOSE i \in S : Cardinality({j \in S : j <= i}) = k

\* C3 as stated: once load_geo has returned, every row of three fields at least
\* is found under its normalized country name (trimmed, whitespace-collapsed,
\* lowercased), with that row's capital, continent and source line.
C3_EveryRowFoundByNormalizedName ==
    pos = Len(rows) =>
        \A i \in Loaded :
            LET k == lower(normalize_spaces(rows[i][1]))
            IN k \in DOMAIN countries /\ countries[k] = RecordOf(rows[i])

\* C3 as amended: every processed row of three fields at least that is the last
\* such row with its trimmed, lowercased country name is found under that name
\* (trimmed and lowercased, inner whitespace kept), with that row's trimmed
\* capital and continent and the source line "country,capital,continent" of
\* its trimmed fields.
C3_LastRowFoundByTrimmedLowercasedName ==
    \A i \in Loaded :
        LET k == lower(strip(rows[i][1]))
        IN (\A j \in Loaded : j > i => lower(strip(rows[j][1])) # k)
           => k \in DOMAIN countries /\ countries[k] = RecordOf(rows[i])

\* load_geo has returned from rows holding a repeated country (in another
\* letter case) and a country with a run of blanks inside
C3_Witness ==
    /\ pos = Len(rows)
    /\ \E i, j \in Loaded :
          /\ i < j
          /\ lower(strip(rows[i][1])) = lower(strip(rows[j][1]))
          /\ strip(rows[i][2]) # strip(rows[j][2])
          /\ countries[lower(strip(rows[j][1]))].capital = strip(rows[j][2])
    /\ \E i \in Loaded : normalize_spaces(rows[i][1]) # strip(rows[i][1])

\* C10: after any number of rows, rows of fewer than three fields are in
\* neither index; the country index maps each lowercased trimmed country name
\* to the last well-formed row with that name; the continent index maps each
\* lowercased trimmed continent name to all well-formed rows naming it, in
\* input order, those shadowed in the country index included.
C10_IndicesAfterLoad ==
    /\ DOMAIN countries = {lower(strip(rows[i][1])) : i \in Loaded}
    /\ \A k \in DOMAIN countries :
          countries[k] =
              RecordOf(rows[Max({i \in Loaded : lower(strip(rows[i][1])) = k})])
    /\ DOMAIN by_continent = {lower(strip(rows[i][3])) : i \in Loaded}
    /\ \A c \in DOMAIN by_continent :
          LET naming == {i \in Loaded : lower(strip(rows[i][3])) = c}
          IN /\ Len(by_continent[c]) = Cardinality(naming)
             /\ \A n \in 1..Cardinality(naming) :
                   by_continent[c][n] = RecordOf(rows[Nth(naming, n)])

\* load_geo has returned, a short row was skipped, and a continent list shows
\* a record that the country index no longer returns
C10_Witness ==
    /\ pos = Len(rows)
    /\ \E i \in 1..pos : Len(rows[i]) < 3 /\ Len(rows[i]) > 0
    /\ \E c \in DOMAIN by_continent : \E n \in 1..Len(by_continent[c]) :
          countries[lower(by_continent[c][n].country)] # by_continent[c][n]

-----------------------------------------------------------------------------
(* Properties of Ask (checked under Spec)                                  *)

\* Ask has returned
Done == branch # "none"

\* the normalized question of the request
Q == NormalizeQuestion(req.question)

\* the request with another question, and what Ask answers to it
AnswerTo(request) ==
    LET r == Ask(countries, by_continent, request)
    IN [answer |-> r.answer, sources |-> r.sources]

\* the first m elements of a list
FirstN(list, m) == [i \in 1..m |-> list[i]]

\* the number of results asked for: top_k, or 10 when it is not positive
Wanted == IF req.top_k > 0 THEN req.top_k ELSE 10

\* the continent of a listing question and the records the index holds for it
ListedContinent == lower(strip(Match3(Q).group1))
ContinentRecords ==
    IF ListedContinent \in DOMAIN by_continent THEN by_continent[ListedContinent] ELSE <<>>

\* C1 as stated: a question "what is the capital of X", with or without one
\* trailing "?", about a country X of the index is answered "The capital of
\* {Country} is {Capital}.", exactly as the question "capital of X" is.
C1_WhatIsTheCapitalOfAnswered ==
    Done =>
        \A X \in Names, mark \in {<<>>, <<"?">>} :
            (/\ req.question = <<"w","h","a","t"," ","i","s"," ","t","h","e"," ","c","a","p","i","t","a","l"," ","o","f"," ">> \o X \o mark
             /\ lower(X) \in DOMAIN countries)
            => /\ resp.answer = <<"T","h","e"," ","c","a","p","i","t","a","l"," ","o","f"," ">> \o countries[lower(X)].country
                                \o <<" ","i","s"," ">> \o countries[lower(X)].capital \o <<".">>
               /\ resp = AnswerTo([req EXCEPT !.question = <<"c","a","p","i","t","a","l"," ","o","f"," ">> \o X])

\* C2 as stated: the listing handler prints the continent as the caller wrote
\* it (trimmed, letter case kept): "list countries in X" is answered with
\* "Countries in X: ..." or "I don't have any countries for continent 'X'."
C2_ListingShowsCallersLetterCase ==
    Done =>
        \A X \in Names \ {<<>>} :
            req.question = <<"l","i","s","t"," ","c","o","u","n","t","r","i","e","s"," ","i","n"," ">> \o X
            => \/ HasAt(resp.answer, 1, <<"C","o","u","n","t","r","i","e","s"," ","i","n"," ">> \o normalize_spaces(X) \o <<":"," ">>)
               \/ resp.answer = <<"I"," ","d","o","n","'","t"," ","h","a","v","e"," ","a","n","y"," ","c","o","u","n","t","r","i","e","s"," ","f","o","r"," ","c","o","n","t","i","n","e","n","t"," ","'">>
                                \o normalize_spaces(X) \o <<"'",".">>

\* C4: when the listing handler answers and the continent index holds n >= 1
\* records for the lowercased continent, the answer lists the country names of
\* the first min(effectiveTopK, n) records in load order joined by ", ", and
\* the sources are the source lines of exactly those records in that order
\* when includeSources is true, and empty when it is false.
C4_ListingIsFirstKInLoadOrder ==
    (branch = "p3" /\ Len(ContinentRecords) >= 1) =>
        LET n == Len(ContinentRecords)
            shown == FirstN(ContinentRecords, IF Wanted < n THEN Wanted ELSE n)
        IN /\ resp.answer = <<"C","o","u","n","t","r","i","e","s"," ","i","n"," ">> \o strip(Match3(Q).group1) \o <<":"," ">>
                            \o join(<<","," ">>, [i \in 1..Len(shown) |-> shown[i].country])
                            \o <<".">>
           /\ resp.sources = IF req.include_sources
                             THEN [i \in 1..Len(shown) |-> shown[i].row]
                             ELSE <<>>

\* the client's listing call: eleven records for Asia, top_k = 5, five names
\* and five sources
C4_Witness ==
    /\ branch = "p3"
    /\ req.question = <<"l","i","s","t"," ","c","o","u","n","t","r","i","e","s"," ","i","n"," ","A","s","i","a">>
    /\ req.top_k = 5
    /\ req.include_sources
    /\ Len(ContinentRecords) = 11
    /\ resp.sources = <<<<"I","n","d","i","a",",","N","e","w"," ","D","e","l","h","i",",","A","s","i","a">>, <<"C","h","i","n","a",",","B","e","i","j","i","n","g",",","A","s","i","a">>, <<"J","a","p","a","n",",","T","o","k","y","o",",","A","s","i","a">>,
                        <<"N","e","p","a","l",",","K","a","t","h","m","a","n","d","u",",","A","s","i","a">>, <<"L","a","o","s",",","V","i","e","n","t","i","a","n","e",",","A","s","i","a">>>>

\* C5: a request with top_k <= 0 gets the response the same request gets with
\* top_k = 10; and a top_k greater than the length of the continent's list
\* gets the whole list.
C5_NonPositiveTopKIsTen ==
    Done =>
        /\ req.top_k <= 0 => resp = AnswerTo([req EXCEPT !.top_k = 10])
        /\ (branch = "p3" /\ Len(ContinentRecords) >= 1 /\ req.top_k > Len(ContinentRecords))
           => /\ resp.answer = <<"C","o","u","n","t","r","i","e","s"," ","i","n"," ">> \o strip(Match3(Q).group1) \o <<":"," ">>
                               \o join(<<","," ">>, Column(ContinentRecords, "country")) \o <<".">>
              /\ req.include_sources => resp.sources = Column(ContinentRecords, "row")

\* a listing with top_k = 0 of a continent of eleven records shows ten of them
C5_Witness ==
    /\ branch = "p3"
    /\ req.top_k = 0
    /\ req.include_sources
    /\ Len(ContinentRecords) = 11
    /\ Len(resp.sources) = 10

\* C7: when a lookup handler answers and the captured country is no key of the
\* country index, the answer is "I don't have data for '{c}'." with c the
\* lowercased trimmed capture and sources is empty; for "which continent is X
\* in", with or without "?", c is X lowercased, without the " in" and the "?".
C7_UnknownCountry ==
    /\ (/\ branch \in {"p1", "p2", "p4"}
        /\ lower(strip(MatchOf(branch, Q).group1)) \notin DOMAIN countries)
       => /\ resp.answer = <<"I"," ","d","o","n","'","t"," ","h","a","v","e"," ","d","a","t","a"," ","f","o","r"," ","'">>
                           \o lower(strip(MatchOf(branch, Q).group1)) \o <<"'",".">>
          /\ resp.sources = <<>>
    /\ Done =>
          \A X \in Names \ {<<>>}, mark \in {<<>>, <<"?">>} :
              (/\ req.question = <<"w","h","i","c","h"," ","c","o","n","t","i","n","e","n","t"," ","i","s"," ">> \o X \o <<" ","i","n">> \o mark
               /\ lower(normalize_spaces(X)) \notin DOMAIN countries)
              => /\ resp.answer = <<"I"," ","d","o","n","'","t"," ","h","a","v","e"," ","d","a","t","a"," ","f","o","r"," ","'">>
                                  \o lower(normalize_spaces(X)) \o <<"'",".">>
                 /\ resp.sources = <<>>

\* "Which continent is Atlantis in?" with sources asked for
C7_Witness ==
    /\ branch = "p2"
    /\ req.question = <<"W","h","i","c","h"," ","c","o","n","t","i","n","e","n","t"," ","i","s"," ","A","t","l","a","n","t","i","s"," ","i","n","?">>
    /\ req.include_sources
    /\ DOMAIN countries # {}
    /\ resp = [answer |-> <<"I"," ","d","o","n","'","t"," ","h","a","v","e"," ","d","a","t","a"," ","f","o","r"," ","'","a","t","l","a","n","t","i","s","'",".">>, sources |-> <<>>]

\* C8: a question whose normalized form matches none of the four patterns gets
\* the fixed help text of three phrasings and no sources, whatever top_k and
\* include_sources are.
C8_FallbackHelp ==
    (Done /\ \A p \in {"p1", "p2", "p3", "p4"} : ~MatchOf(p, Q).matched) =>
        /\ branch = "fallback"
        /\ resp.answer = <<"I"," ","c","a","n"," ","a","n","s","w","e","r",":","\n","1",")"," ","'","c","a","p","i","t","a","l"," ","o","f"," ","<","c","o","u","n","t","r","y",">","'","\n","2",")"," ","'","w","h","i","c","h"," ","c","o","n","t","i","n","e","n","t"," ","i","s"," ","<","c","o","u","n","t","r","y",">"," ","i","n","'","\n","3",")"," ","'","l","i","s","t"," ","c","o","u","n","t","r","i","e","s"," ","i","n"," ","<","c","o","n","t","i","n","e","n","t",">","'">>
        /\ resp.sources = <<>>

\* "hello there" with a top_k and sources asked for
C8_Witness ==
    /\ branch = "fallback"
    /\ Q = <<"h","e","l","l","o"," ","t","h","e","r","e">>
    /\ req.top_k = 5
    /\ req.include_sources
    /\ DOMAIN countries # {}
    /\ resp.sources = <<>>

\* C9: the response is the one of the lowest-numbered pattern, in the order
\* 1 "capital of", 2 "which continent is ... in", 3 "list countries in",
\* 4 "what is the capital of", that matches the normalized question.
C9_FirstMatchWins ==
    Done =>
        LET first == IF Match1(Q).matched THEN "p1"
                     ELSE IF Match2(Q).matched THEN "p2"
                     ELSE IF Match3(Q).matched THEN "p3"
                     ELSE IF Match4(Q).matched THEN "p4"
                     ELSE "fallback"
            r == HandlerOf(first, countries, by_continent, MatchOf(first, Q).group1,
                           Wanted, req.include_sources)
        IN /\ branch = first
           /\ first # "fallback" => resp = [answer |-> r.answer, sources |-> r.sources]

\* "List countries in capital of India" matches patterns 1 and 3 and is
\* answered by pattern 1
C9_Witness ==
    /\ branch = "p1"
    /\ req.question = <<"L","i","s","t"," ","c","o","u","n","t","r","i","e","s"," ","i","n"," ","c","a","p","i","t","a","l"," ","o","f"," ","I","n","d","i","a">>
    /\ Match1(Q).matched /\ Match3(Q).matched
    /\ resp.answer = <<"T","h","e"," ","c","a","p","i","t","a","l"," ","o","f"," ","I","N","D","I","A"," ","i","s"," ","D","e","l","h","i",".">>

-----------------------------------------------------------------------------
(* Properties of concurrent calls (checked under SpecServe)                *)

\* C6: no call changes the two indices, and under every interleaving each call
\* gets the response its request gets when run alone on the indices load_geo
\* built, so that identical calls get identical responses.
C6_CallsAreIndependent ==
    /\ countries = load_geo(rows).countries
    /\ by_continent = load_geo(rows).by_continent
    /\ \A t \in Threads :
          calls[t].pc = "handled" =>
              LET alone == Ask(load_geo(rows).countries, load_geo(rows).by_continent,
                               calls[t].request)
              IN calls[t].result = [answer |-> alone.answer, sources |-> alone.sources]

\* two calls have run at once: a listing with top_k = 5 has returned while a
\* listing with the default top_k, received before, returns ten countries
C6_Witness ==
    \E t, u \in Threads :
        /\ t # u
        /\ calls[t].pc = "handled" /\ calls[u].pc = "handled"
        /\ calls[t].request.question = <<"l","i","s","t"," ","c","o","u","n","t","r","i","e","s"," ","i","n"," ","A","s","i","a">>
        /\ calls[u].request.question = <<"l","i","s","t"," ","c","o","u","n","t","r","i","e","s"," ","i","n"," ","A","s","i","a">>
        /\ calls[t].request.top_k = 5 /\ calls[u].request.top_k = 0
        /\ Len(calls[t].result.sources) = 5
        /\ Len(calls[u].result.sources) = 10

=============================================================================
